---- MODULE Spec2Model ----
(***************************************************************************)
(* DatabaseService (src/src/index.ts): a data-access layer over a remote   *)
(* document store.  Every operation builds commands, hands them to          *)
(* docClient.send and awaits the answer.  A call is a process that stops at *)
(* each await; the store answers an outstanding command with success or     *)
(* with an error.  `sent` records, in order, every command handed to        *)
(* docClient.send; `stored` is the item the store holds under the key the   *)
(* update calls address, and `updates` the updates the store applied to it. *)
(*                                                                         *)
(* Values are tagged pairs <<tag, payload>>: <<"num", t>> a number,         *)
(* <<"iso", t>> the ISO-8601 string of instant t, <<"str", s>> a string,    *)
(* <<"null", 0>> and <<"undef", 0>> the two JavaScript non-values,          *)
(* <<"uuid", n>> the n-th identifier produced by uuid().                    *)
(* An item is a function from attribute names to values.                    *)
(***************************************************************************)
EXTENDS Integers, Sequences, FiniteSets, TLC

VARIABLES calls, now, uuids, sent, stored, updates

vars == <<calls, now, uuids, sent, stored, updates>>

\* The chunk size both batch operations pass to the chunker.
BatchSize == 25

\* Longest id list of a bulk fetch (one more than a chunk of the write path).
MaxIds == 26
\* Most items a query response carries.
MaxMatches == 2
\* Longest input list of a batch call (three chunks: 25 + 25 + 1).
MaxItems == 51
\* Longest input list when the records vary in id and timestamps.
MaxList == 2
\* Last instant of the millisecond clock.
MaxClock == 1

Procs == {"p1", "p2"}

Null == <<"null", 0>>
Undefined == <<"undef", 0>>
Str(s) == <<"str", s>>
Num(n) == <<"num", n>>

\* The message the store's not-found failure carries, as getItem tests it.
NotFoundSignal == "Requested resource not found"
\* ErrorMessage.NOT_FOUND
NOT_FOUND == [message |-> "NOT_FOUND"]
StoreErrors == {[message |-> NotFoundSignal], [message |-> "ThrottlingException"]}

---------------------------------------------------------------------------
(* Pure helpers of the class *)

Min(a, b) == IF a < b THEN a ELSE b

\* items.slice(lo, hi) on a 0-based array, as a 1-based sequence
slice(items, lo, hi) == SubSeq(items, lo + 1, Min(hi, Len(items)))

RECURSIVE batchesFrom(_, _, _)
batchesFrom(items, i, batchSize) ==
    IF i < Len(items)
    THEN <<slice(items, i, i + batchSize)>> \o batchesFrom(items, i + batchSize, batchSize)
    ELSE <<>>

\* The chunker with the slice one short: items.slice(i, i + batchSize - 1).
createBatchesShortSlice(items, batchSize) ==
    [b \in 1..Len(batchesFrom(items, 0, batchSize)) |->
        slice(items, (b - 1) * batchSize, b * batchSize - 1)]

\* for (let i = 0; i < items.length; i += batchSize) batches.push(items.slice(i, i + batchSize))
createBatches(items, batchSize) == batchesFrom(items, 0, batchSize)

\* the append path's copy of the chunker
createBatch(items, batchSize) == batchesFrom(items, 0, batchSize)

\* item[key] = value on a copy
SetAttr(item, key, value) ==
    [a \in DOMAIN item \cup {key} |-> IF a = key THEN value ELSE item[a]]

\* uuid(): the n-th identifier generated in this run
uuid(n) == <<"uuid", n>>

NeedsID(data) ==
    \/ "id" \notin DOMAIN data
    \/ data["id"] = Undefined
    \/ data["id"] = Null

\* The test without its null arm: a null id is kept.
generateIDKeepsNull(data, u) ==
    IF "id" \notin DOMAIN data \/ data["id"] = Undefined THEN SetAttr(data, "id", u) ELSE data

\* u is the identifier uuid() yields if it is called
generateID(data, u) == IF NeedsID(data) THEN SetAttr(data, "id", u) ELSE data

\* t1, t2: the two readings of Date.now()
addTimestamps(data, t1, t2) ==
    SetAttr(SetAttr(data, "createdAt", Num(t1)), "updatedAt", Num(t2))

\* new Date().toISOString() at instant t
toISOString(t) == <<"iso", t>>

\* { createdAt: ..., updatedAt: ..., ...data }: the record's own attributes are spread last
addCreatedAt(data, t1, t2) ==
    [a \in {"createdAt", "updatedAt"} \cup DOMAIN data |->
        IF a \in DOMAIN data THEN data[a]
        ELSE IF a = "createdAt" THEN toISOString(t1) ELSE toISOString(t2)]

\* The stamp spread first, as addCreatedAt does it: { updatedAt: Date.now(), ...data }.
modifyUpdatedAtKeepsSupplied(data, t) ==
    IF "updatedAt" \in DOMAIN data THEN data ELSE SetAttr(data, "updatedAt", Num(t))

\* t: the reading of Date.now()
modifyUpdatedAtTimestamp(data, t) == SetAttr(data, "updatedAt", Num(t))

---------------------------------------------------------------------------
(* The clock and the identifier generator *)

\* All sequences of len successive clock readings starting no earlier than lo.
RECURSIVE ClockReadings(_, _)
ClockReadings(len, lo) ==
    IF len = 0 THEN {<<>>}
    ELSE UNION {{<<t>> \o s : s \in ClockReadings(len - 1, t)} : t \in lo..MaxClock}

LastReading(ts) == IF Len(ts) = 0 THEN now ELSE ts[Len(ts)]

\* how many of batch[1..j] get a generated identifier
Generated(batch, j) == Cardinality({i \in 1..j : NeedsID(batch[i])})

---------------------------------------------------------------------------
(* docClient.send *)

\* A command handed to send: what it carries, and how the store answered it.
Command(p, kind, table, input) ==
    [proc |-> p, kind |-> kind, table |-> table, input |-> input, status |-> "pending", reply |-> <<"none", 0>>]

Outstanding(p) == {i \in DOMAIN sent : sent[i].proc = p /\ sent[i].status = "pending"}

\* the store answers p's outstanding command: "ok" with a response, "failed" with an error
Answered(p, status, reply) ==
    [i \in DOMAIN sent |->
        IF i \in Outstanding(p) THEN [sent[i] EXCEPT !.status = status, !.reply = reply] ELSE sent[i]]

\* the response to a write, of which no operation reads anything
WriteDone == <<"done", 0>>

Returned(c, value) == [c EXCEPT !.pc = "returned", !.result = value]
Threw(c, error) == [c EXCEPT !.pc = "threw", !.result = <<"error", error>>]

Void == <<"void", 0>>
NoResult == <<"none", 0>>
Absent == <<"absent", 0>>
Bool(b) == <<"bool", b>>

\* obj.name, undefined when obj has no such property
Field(obj, name) == IF name \in DOMAIN obj THEN obj[name] ELSE Undefined

\* v ?? d
Coalesce(v, d) == IF v = Undefined \/ v = Null THEN d ELSE v

---------------------------------------------------------------------------
(* batchCreateItems *)

\* `for (const batch of batches)` from batch c.k on, up to its await or to the return;
\* log is `sent` as the loop finds it.
batchCreateLoop(p, c, log) ==
    IF c.k > Len(c.batches)
    THEN /\ calls' = [calls EXCEPT ![p] = Returned(c, <<"list", c.response>>)]
         /\ sent' = log
         /\ UNCHANGED <<now, uuids>>
    ELSE LET batch == c.batches[c.k] IN
         \E ts \in ClockReadings(2 * Len(batch), now) :
            LET requestItems == [j \in 1..Len(batch) |->
                    addTimestamps(generateID(batch[j], uuid(uuids + Generated(batch, j))),
                                  ts[2 * j - 1], ts[2 * j])]
            IN /\ calls' = [calls EXCEPT ![p] =
                               [c EXCEPT !.response = c.response \o requestItems, !.pc = "await"]]
               /\ sent' = Append(log, Command(p, "BatchWrite", calls[p].params.table, requestItems))
               /\ now' = LastReading(ts)
               /\ uuids' = uuids + Generated(batch, Len(batch))

\* The loop without its await: every batch is sent before any answer.
batchCreateItemsAllAtOnce(p) ==
    /\ calls[p].op = "batchCreateItems"
    /\ calls[p].pc = "start"
    /\ UNCHANGED <<stored, updates>>
    /\ LET batches == createBatches(calls[p].params.items, BatchSize)
           items == [j \in 1..Len(calls[p].params.items) |->
                       addTimestamps(generateID(calls[p].params.items[j],
                                                uuid(uuids + Generated(calls[p].params.items, j))), now, now)]
       IN /\ calls' = [calls EXCEPT ![p] =
                          IF Len(batches) = 0 THEN Returned(calls[p], <<"list", <<>> >>)
                          ELSE [calls[p] EXCEPT !.batches = batches, !.k = Len(batches),
                                                !.response = items, !.pc = "await"]]
          /\ sent' = sent \o [b \in 1..Len(batches) |->
                         Command(p, "BatchWrite", calls[p].params.table, slice(items, (b - 1) * BatchSize, b * BatchSize))]
          /\ uuids' = uuids + Generated(calls[p].params.items, Len(calls[p].params.items))
          /\ UNCHANGED now

\* the call runs to its first await
batchCreateItems(p) ==
    /\ calls[p].op = "batchCreateItems"
    /\ calls[p].pc = "start"
    /\ UNCHANGED <<stored, updates>>
    /\ batchCreateLoop(p, [calls[p] EXCEPT !.batches = createBatches(calls[p].params.items, BatchSize),
                                           !.k = 1, !.response = <<>>], sent)

\* the store answers the outstanding bulk-write; the loop goes on with the next batch
batchCreateItemsOk(p) ==
    /\ calls[p].op = "batchCreateItems"
    /\ calls[p].pc = "await"
    /\ UNCHANGED <<stored, updates>>
    /\ batchCreateLoop(p, [calls[p] EXCEPT !.k = calls[p].k + 1], Answered(p, "ok", WriteDone))

\* The failure swallowed: the loop goes on with the next batch.
batchCreateItemsErrIgnored(p) ==
    /\ calls[p].op = "batchCreateItems"
    /\ calls[p].pc = "await"
    /\ UNCHANGED <<stored, updates>>
    /\ \E e \in StoreErrors :
          batchCreateLoop(p, [calls[p] EXCEPT !.k = calls[p].k + 1],
                          Answered(p, "failed", <<"error", e>>))

\* the bulk-write fails: .catch((error) => { throw error; })
batchCreateItemsErr(p) ==
    /\ calls[p].op = "batchCreateItems"
    /\ calls[p].pc = "await"
    /\ UNCHANGED <<stored, updates>>
    /\ \E e \in StoreErrors :
          /\ calls' = [calls EXCEPT ![p] = Threw(calls[p], e)]
          /\ sent' = Answered(p, "failed", <<"error", e>>)
    /\ UNCHANGED <<now, uuids>>

---------------------------------------------------------------------------
(* addItems *)

addItemsLoop(p, c, log) ==
    IF c.k > Len(c.batches)
    THEN /\ calls' = [calls EXCEPT ![p] = Returned(c, Void)]
         /\ sent' = log
         /\ UNCHANGED <<now, uuids>>
    ELSE LET chunk == c.batches[c.k] IN
         \E ts \in ClockReadings(2 * Len(chunk), now) :
            LET putItems == [j \in 1..Len(chunk) |->
                    addCreatedAt(chunk[j], ts[2 * j - 1], ts[2 * j])]
            IN /\ calls' = [calls EXCEPT ![p] = [c EXCEPT !.pc = "await"]]
               /\ sent' = Append(log, Command(p, "BatchWrite", calls[p].params.table, putItems))
               /\ now' = LastReading(ts)
               /\ UNCHANGED uuids

addItems(p) ==
    /\ calls[p].op = "addItems"
    /\ calls[p].pc = "start"
    /\ UNCHANGED <<stored, updates>>
    /\ addItemsLoop(p, [calls[p] EXCEPT !.batches = createBatch(calls[p].params.items, BatchSize),
                                        !.k = 1], sent)

addItemsOk(p) ==
    /\ calls[p].op = "addItems"
    /\ calls[p].pc = "await"
    /\ UNCHANGED <<stored, updates>>
    /\ addItemsLoop(p, [calls[p] EXCEPT !.k = calls[p].k + 1], Answered(p, "ok", WriteDone))

\* the rejected send is not caught
addItemsErr(p) ==
    /\ calls[p].op = "addItems"
    /\ calls[p].pc = "await"
    /\ UNCHANGED <<stored, updates>>
    /\ \E e \in StoreErrors :
          /\ calls' = [calls EXCEPT ![p] = Threw(calls[p], e)]
          /\ sent' = Answered(p, "failed", <<"error", e>>)
    /\ UNCHANGED <<now, uuids>>

---------------------------------------------------------------------------
(* createItem *)

createItem(p) ==
    /\ calls[p].op = "createItem"
    /\ calls[p].pc = "start"
    /\ UNCHANGED <<stored, updates>>
    /\ \E ts \in ClockReadings(2, now) :
          LET item == addTimestamps(generateID(calls[p].params.data, uuid(uuids + 1)), ts[1], ts[2])
          IN /\ calls' = [calls EXCEPT ![p] = [calls[p] EXCEPT !.response = <<item>>, !.pc = "await"]]
             /\ sent' = Append(sent, Command(p, "Put", calls[p].params.table, <<item>>))
             /\ now' = LastReading(ts)
             /\ uuids' = uuids + Generated(<<calls[p].params.data>>, 1)

createItemOk(p) ==
    /\ calls[p].op = "createItem"
    /\ calls[p].pc = "await"
    /\ UNCHANGED <<stored, updates>>
    /\ calls' = [calls EXCEPT ![p] = Returned(calls[p], <<"item", calls[p].response[1]>>)]
    /\ sent' = Answered(p, "ok", WriteDone)
    /\ UNCHANGED <<now, uuids>>

createItemErr(p) ==
    /\ calls[p].op = "createItem"
    /\ calls[p].pc = "await"
    /\ UNCHANGED <<stored, updates>>
    /\ \E e \in StoreErrors :
          /\ calls' = [calls EXCEPT ![p] = Threw(calls[p], e)]
          /\ sent' = Answered(p, "failed", <<"error", e>>)
    /\ UNCHANGED <<now, uuids>>

---------------------------------------------------------------------------
(* addItem *)

addItem(p) ==
    /\ calls[p].op = "addItem"
    /\ calls[p].pc = "start"
    /\ UNCHANGED <<stored, updates>>
    /\ LET excludeCreatedAt == Coalesce(Field(calls[p].params, "excludeCreatedAt"), Bool(FALSE)) IN
       \E ts \in ClockReadings(IF excludeCreatedAt = Bool(TRUE) THEN 0 ELSE 2, now) :
          LET item == IF excludeCreatedAt = Bool(TRUE) THEN calls[p].params.data
                      ELSE addCreatedAt(calls[p].params.data, ts[1], ts[2])
          IN /\ calls' = [calls EXCEPT ![p] = [calls[p] EXCEPT !.pc = "await"]]
             /\ sent' = Append(sent, Command(p, "Put", calls[p].params.table, <<item>>))
             /\ now' = LastReading(ts)
             /\ UNCHANGED uuids

addItemOk(p) ==
    /\ calls[p].op = "addItem"
    /\ calls[p].pc = "await"
    /\ UNCHANGED <<stored, updates>>
    /\ calls' = [calls EXCEPT ![p] = Returned(calls[p], Void)]
    /\ sent' = Answered(p, "ok", WriteDone)
    /\ UNCHANGED <<now, uuids>>

addItemErr(p) ==
    /\ calls[p].op = "addItem"
    /\ calls[p].pc = "await"
    /\ UNCHANGED <<stored, updates>>
    /\ \E e \in StoreErrors :
          /\ calls' = [calls EXCEPT ![p] = Threw(calls[p], e)]
          /\ sent' = Answered(p, "failed", <<"error", e>>)
    /\ UNCHANGED <<now, uuids>>

---------------------------------------------------------------------------
(* getItem *)

\* a response object of the store, before the fields an operation reads
Output == [metadata |-> Str("200")]

ItemUnder(key) == [id |-> key["id"], name |-> Str("Ann")]

\* what a fetch of key may answer: no Item, or the item
GetOutputs(key) == {Output, SetAttr(Output, "Item", ItemUnder(key))}

getItem(p) ==
    /\ calls[p].op = "getItem"
    /\ calls[p].pc = "start"
    /\ UNCHANGED <<stored, updates>>
    /\ calls' = [calls EXCEPT ![p] = [calls[p] EXCEPT !.pc = "await"]]
    /\ sent' = Append(sent, Command(p, "Get", calls[p].params.table, [Key |-> calls[p].params.key]))
    /\ UNCHANGED <<now, uuids>>

\* if (response.Item === undefined) throw new Error(ErrorMessage.NOT_FOUND)
getItemOk(p) ==
    /\ calls[p].op = "getItem"
    /\ calls[p].pc = "await"
    /\ UNCHANGED <<stored, updates>>
    /\ \E response \in GetOutputs(calls[p].params.key) :
          /\ calls' = [calls EXCEPT ![p] =
                          IF "Item" \notin DOMAIN response THEN Threw(calls[p], NOT_FOUND)
                          ELSE Returned(calls[p], <<"item", response["Item"]>>)]
          /\ sent' = Answered(p, "ok", <<"output", response>>)
    /\ UNCHANGED <<now, uuids>>

\* Every failure of the fetch reported as absence.
getItemErrAllNotFound(p) ==
    /\ calls[p].op = "getItem"
    /\ calls[p].pc = "await"
    /\ UNCHANGED <<stored, updates>>
    /\ \E error \in StoreErrors :
          /\ calls' = [calls EXCEPT ![p] = Threw(calls[p], NOT_FOUND)]
          /\ sent' = Answered(p, "failed", <<"error", error>>)
    /\ UNCHANGED <<now, uuids>>

\* .catch: the not-found message becomes NOT_FOUND, any other error is rethrown
getItemErr(p) ==
    /\ calls[p].op = "getItem"
    /\ calls[p].pc = "await"
    /\ UNCHANGED <<stored, updates>>
    /\ \E error \in StoreErrors :
          /\ calls' = [calls EXCEPT ![p] =
                          IF error.message = NotFoundSignal THEN Threw(calls[p], NOT_FOUND)
                          ELSE Threw(calls[p], error)]
          /\ sent' = Answered(p, "failed", <<"error", error>>)
    /\ UNCHANGED <<now, uuids>>

---------------------------------------------------------------------------
(* batchGetItems *)

\* params.ids.map((id) => ({ id: id }))
KeysOf(ids) == [i \in 1..Len(ids) |-> [id |-> ids[i]]]

\* The fetch cut to one chunk of the write path.
batchGetItemsFirstChunk(p) ==
    /\ calls[p].op = "batchGetItems"
    /\ calls[p].pc = "start"
    /\ UNCHANGED <<stored, updates>>
    /\ calls' = [calls EXCEPT ![p] = [calls[p] EXCEPT !.pc = "await"]]
    /\ sent' = Append(sent, Command(p, "BatchGet", calls[p].params.table,
                                    [Keys |-> KeysOf(slice(calls[p].params.ids, 0, BatchSize))]))
    /\ UNCHANGED <<now, uuids>>

batchGetItems(p) ==
    /\ calls[p].op = "batchGetItems"
    /\ calls[p].pc = "start"
    /\ UNCHANGED <<stored, updates>>
    /\ calls' = [calls EXCEPT ![p] = [calls[p] EXCEPT !.pc = "await"]]
    /\ sent' = Append(sent, Command(p, "BatchGet", calls[p].params.table,
                                    [Keys |-> KeysOf(calls[p].params.ids)]))
    /\ UNCHANGED <<now, uuids>>

\* the items the store may report for keys: all, none, every second one
FoundLists(keys) ==
    {[i \in 1..Len(keys) |-> ItemUnder(keys[i])],
     <<>>,
     [i \in 1..(Len(keys) \div 2) |-> ItemUnder(keys[2 * i])]}

\* what a bulk fetch may answer: no Responses, Responses of another table only,
\* or the items found in the table
BatchGetOutputs(table, keys) ==
    {Output, SetAttr(Output, "Responses", [t \in {"orders"} |-> <<>>])}
    \cup {SetAttr(Output, "Responses", [t \in {table} |-> found]) : found \in FoundLists(keys)}

\* response?.Responses?.[params.table] ?? []
batchGetItemsOk(p) ==
    /\ calls[p].op = "batchGetItems"
    /\ calls[p].pc = "await"
    /\ UNCHANGED <<stored, updates>>
    /\ \E response \in BatchGetOutputs(calls[p].params.table, KeysOf(calls[p].params.ids)) :
          /\ calls' = [calls EXCEPT ![p] = Returned(calls[p], <<"list",
                          IF "Responses" \notin DOMAIN response THEN <<>>
                          ELSE IF calls[p].params.table \notin DOMAIN response["Responses"] THEN <<>>
                          ELSE response["Responses"][calls[p].params.table]>>)]
          /\ sent' = Answered(p, "ok", <<"output", response>>)
    /\ UNCHANGED <<now, uuids>>

\* the rejected send is not caught
batchGetItemsErr(p) ==
    /\ calls[p].op = "batchGetItems"
    /\ calls[p].pc = "await"
    /\ UNCHANGED <<stored, updates>>
    /\ \E error \in StoreErrors :
          /\ calls' = [calls EXCEPT ![p] = Threw(calls[p], error)]
          /\ sent' = Answered(p, "failed", <<"error", error>>)
    /\ UNCHANGED <<now, uuids>>

---------------------------------------------------------------------------
(* listItemsByIndex *)

\* the placeholders `:${key}` and `#${key}`
Colon(key) == <<":", key>>
Hash(key) == <<"#", key>>

\* the conjunction `${val} = :${val}` joined by ' AND ', as the set of its equalities,
\* and the values its placeholders stand for
QueryInput(index, values) ==
    [IndexName |-> index,
     KeyConditionExpression |-> {[attr |-> k, value |-> Colon(k)] : k \in DOMAIN values},
     ExpressionAttributeValues |-> [a \in {Colon(k) : k \in DOMAIN values} |-> values[a[2]]]]

listItemsByIndex(p) ==
    /\ calls[p].op = "listItemsByIndex"
    /\ calls[p].pc = "start"
    /\ UNCHANGED <<stored, updates>>
    /\ calls' = [calls EXCEPT ![p] = [calls[p] EXCEPT !.pc = "await"]]
    /\ sent' = Append(sent, Command(p, "Query", calls[p].params.table,
                                    QueryInput(calls[p].params.index, calls[p].params.values)))
    /\ UNCHANGED <<now, uuids>>

Matches == {[id |-> Str("o1"), customerId |-> Str("c1")], [id |-> Str("o2"), customerId |-> Str("c1")]}

\* what a query may answer: no Items, or a list of Items, empty or not
QueryOutputs ==
    {Output} \cup {SetAttr(Output, "Items", l) : l \in UNION {[1..n -> Matches] : n \in 0..MaxMatches}}

\* response = output.Items?.map(...); if (response?.length === 0) throw; return response ?? []
listItemsByIndexOk(p) ==
    /\ calls[p].op = "listItemsByIndex"
    /\ calls[p].pc = "await"
    /\ UNCHANGED <<stored, updates>>
    /\ \E output \in QueryOutputs :
          /\ calls' = [calls EXCEPT ![p] =
                          IF "Items" \notin DOMAIN output THEN Returned(calls[p], <<"list", <<>> >>)
                          ELSE IF Len(output["Items"]) = 0 THEN Threw(calls[p], NOT_FOUND)
                          ELSE Returned(calls[p], <<"list", [i \in 1..Len(output["Items"]) |-> output["Items"][i]]>>)]
          /\ sent' = Answered(p, "ok", <<"output", output>>)
    /\ UNCHANGED <<now, uuids>>

\* .catch((error) => { throw error; })
listItemsByIndexErr(p) ==
    /\ calls[p].op = "listItemsByIndex"
    /\ calls[p].pc = "await"
    /\ UNCHANGED <<stored, updates>>
    /\ \E error \in StoreErrors :
          /\ calls' = [calls EXCEPT ![p] = Threw(calls[p], error)]
          /\ sent' = Answered(p, "failed", <<"error", error>>)
    /\ UNCHANGED <<now, uuids>>

---------------------------------------------------------------------------
(* updateItem *)

\* 'set ' + the assignments `#${key} = :${key}` joined by ', ', as the set of its
\* assignments, with the attribute each name placeholder and the value each value
\* placeholder stands for
UpdateInput(key, data) ==
    [Key |-> key,
     UpdateExpression |-> {[name |-> Hash(k), value |-> Colon(k)] : k \in DOMAIN data},
     ExpressionAttributeNames |-> [a \in {Hash(k) : k \in DOMAIN data} |-> a[2]],
     ExpressionAttributeValues |-> [a \in {Colon(k) : k \in DOMAIN data} |-> data[a[2]]],
     ReturnValues |-> "ALL_NEW"]

updateItem(p) ==
    /\ calls[p].op = "updateItem"
    /\ calls[p].pc = "start"
    /\ \E t \in now..MaxClock :
          LET data == modifyUpdatedAtTimestamp(calls[p].params.data, t)
          IN /\ calls' = [calls EXCEPT ![p] = [calls[p] EXCEPT !.params.data = data, !.pc = "await"]]
             /\ sent' = Append(sent, Command(p, "Update", calls[p].params.table,
                                             UpdateInput(calls[p].params.key, data)))
             /\ now' = t
    /\ UNCHANGED <<uuids, stored, updates>>

\* the store's SET: every assignment's attribute takes the assignment's value
ApplySet(item, input) ==
    LET names == input.ExpressionAttributeNames
        values == input.ExpressionAttributeValues
        set == input.UpdateExpression
    IN [a \in DOMAIN item \cup {names[c.name] : c \in set} |->
           IF \E c \in set : names[c.name] = a
           THEN values[(CHOOSE c \in set : names[c.name] = a).value]
           ELSE item[a]]

\* the store applies the update and reports the whole new item: return response.Attributes
updateItemOk(p) ==
    /\ calls[p].op = "updateItem"
    /\ calls[p].pc = "await"
    /\ LET input == sent[CHOOSE i \in Outstanding(p) : TRUE].input
           after == ApplySet(stored, input)
           response == SetAttr(Output, "Attributes", after)
       IN /\ stored' = after
          /\ updates' = Append(updates, [proc |-> p, before |-> stored, after |-> after])
          /\ calls' = [calls EXCEPT ![p] = Returned(calls[p], <<"item", response["Attributes"]>>)]
          /\ sent' = Answered(p, "ok", <<"output", response>>)
    /\ UNCHANGED <<now, uuids>>

\* .catch((error) => { throw error; })
updateItemErr(p) ==
    /\ calls[p].op = "updateItem"
    /\ calls[p].pc = "await"
    /\ \E error \in StoreErrors :
          /\ calls' = [calls EXCEPT ![p] = Threw(calls[p], error)]
          /\ sent' = Answered(p, "failed", <<"error", error>>)
    /\ UNCHANGED <<now, uuids, stored, updates>>

---------------------------------------------------------------------------
(* The calls of a run *)

\* A call of operation op with its params object, before it runs; given keeps the
\* params as the caller passed them.
Call(op, params) ==
    [op |-> op, params |-> params, given |-> params, pc |-> "start", batches |-> <<>>, k |-> 0,
     response |-> <<>>, result |-> NoResult]

Table == "users"

\* Records told apart by their caller and their place in the input.
PlainItem(p, i) == [owner |-> Str(p), n |-> Num(i)]
PlainItems(p, n) == [i \in 1..n |-> PlainItem(p, i)]

\* addItem's params with each way of giving excludeCreatedAt
AddItemParams(data) ==
    {[table |-> Table, data |-> data]}
    \cup {[table |-> Table, data |-> data, excludeCreatedAt |-> f] : f \in {Bool(FALSE), Bool(TRUE)}}

PlainCalls(p, lens) ==
    {Call(op, [table |-> Table, items |-> PlainItems(p, n)]) :
        op \in {"batchCreateItems", "addItems"}, n \in lens}
    \cup {Call("createItem", [table |-> Table, data |-> PlainItem(p, 1)])}
    \cup {Call("addItem", a) : a \in AddItemParams(PlainItem(p, 1))}

\* The list lengths of the second caller: no chunk, and two chunks.
OtherLens == {0, BatchSize + 1}

\* Records that vary in what the enrichment reads: the id, or the two timestamps.
IdChoices == {Absent, Undefined, Null, Str(""), Str("a")}

WithAttr(item, key, v) == IF v = Absent THEN item ELSE SetAttr(item, key, v)

RichItems(p) ==
    {WithAttr([owner |-> Str(p)], "id", i) : i \in IdChoices}
    \cup {[owner |-> Str(p), createdAt |-> Str("old"), updatedAt |-> Str("older")]}

RichLists(p) == UNION {[1..n -> RichItems(p)] : n \in 0..MaxList}

RichCalls(p) ==
    {Call(op, [table |-> Table, items |-> l]) :
        op \in {"batchCreateItems", "addItems"}, l \in RichLists(p)}
    \cup {Call("createItem", [table |-> Table, data |-> d]) : d \in RichItems(p)}
    \cup {Call("addItem", a) : a \in UNION {AddItemParams(d) : d \in RichItems(p)}}

\* what the store holds under the key no call of the run addresses
NoItem == [id |-> Str("u0")]

\* Concurrent callers with long lists; the whole run falls within one clock instant.
InitBatch ==
    /\ \E a \in PlainCalls("p1", 0..MaxItems), b \in PlainCalls("p2", OtherLens) :
          calls = [p \in Procs |-> IF p = "p1" THEN a ELSE b]
    /\ now = MaxClock
    /\ uuids = 0
    /\ sent = <<>>
    /\ stored = NoItem
    /\ updates = <<>>

\* A caller with short lists of varied records beside a caller creating one record
\* without id; the clock runs.
InitCreate ==
    /\ \E a \in RichCalls("p1") :
          calls = [p \in Procs |-> IF p = "p1" THEN a
                                   ELSE Call("createItem", [table |-> Table, data |-> [owner |-> Str(p)]])]
    /\ now = 0
    /\ uuids = 0
    /\ sent = <<>>
    /\ stored = NoItem
    /\ updates = <<>>

NextWrite ==
    \E p \in Procs :
        \/ batchCreateItems(p)
        \/ batchCreateItemsOk(p)
        \/ batchCreateItemsErr(p)
        \/ addItems(p)
        \/ addItemsOk(p)
        \/ addItemsErr(p)
        \/ createItem(p)
        \/ createItemOk(p)
        \/ createItemErr(p)
        \/ addItem(p)
        \/ addItemOk(p)
        \/ addItemErr(p)

SpecBatch == InitBatch /\ [][NextWrite]_vars
SpecCreate == InitCreate /\ [][NextWrite]_vars

---------------------------------------------------------------------------
(* Runs of the read operations *)

\* the i-th id of an id list
Id(i) == <<"id", i>>

Keys == {[id |-> Str("u1")], [id |-> Str("missing")]}

QueryValues == {[customerId |-> Str("c1")], [customerId |-> Str("c1"), status |-> Str("open")]}

ReadCalls ==
    {Call("getItem", [table |-> Table, key |-> k]) : k \in Keys}
    \cup {Call("batchGetItems", [table |-> Table, ids |-> [i \in 1..n |-> Id(i)]]) : n \in 0..MaxIds}
    \cup {Call("listItemsByIndex", [table |-> Table, index |-> "byCustomer", values |-> v]) :
             v \in QueryValues}

\* Two concurrent readers.
InitRead ==
    /\ \E a \in ReadCalls, b \in ReadCalls :
          /\ b.op = "batchGetItems" => Len(b.params.ids) = BatchSize
          /\ calls = [p \in Procs |-> IF p = "p1" THEN a ELSE b]
    /\ now = 0
    /\ uuids = 0
    /\ sent = <<>>
    /\ stored = NoItem
    /\ updates = <<>>

NextRead ==
    \E p \in Procs :
        \/ getItem(p)
        \/ getItemOk(p)
        \/ getItemErr(p)
        \/ batchGetItems(p)
        \/ batchGetItemsOk(p)
        \/ batchGetItemsErr(p)
        \/ listItemsByIndex(p)
        \/ listItemsByIndexOk(p)
        \/ listItemsByIndexErr(p)

SpecRead == InitRead /\ [][NextRead]_vars

---------------------------------------------------------------------------
(* Runs of updateItem *)

UpdateKey == [id |-> Str("u1")]

StoredItems ==
    {[id |-> Str("u1")],
     [id |-> Str("u1"), name |-> Str("Ann"), age |-> Num(30), createdAt |-> Num(0), updatedAt |-> Num(0)]}

\* the attribute maps an update may supply: any of name, status and updatedAt
UpdateData(p) == UNION {[S -> {Str(p)}] : S \in SUBSET {"name", "status", "updatedAt"}}

\* Two callers update the same stored item; the clock runs.
InitUpdate ==
    /\ \E a \in UpdateData("p1"), b \in UpdateData("p2") :
          calls = [p \in Procs |-> Call("updateItem",
                      [table |-> Table, key |-> UpdateKey, data |-> IF p = "p1" THEN a ELSE b])]
    /\ now = 0
    /\ uuids = 0
    /\ sent = <<>>
    /\ stored \in StoredItems
    /\ updates = <<>>

NextUpdate ==
    \E p \in Procs :
        \/ updateItem(p)
        \/ updateItemOk(p)
        \/ updateItemErr(p)

SpecUpdate == InitUpdate /\ [][NextUpdate]_vars

---------------------------------------------------------------------------
(* What the store saw of a call *)

\* the commands p handed to send, in the order it sent them
CommandsOf(p) == SelectSeq(sent, LAMBDA c : c.proc = p)

RECURSIVE Flatten(_)
Flatten(cmds) == IF Len(cmds) = 0 THEN <<>> ELSE Head(cmds).input \o Flatten(Tail(cmds))

CeilDiv(n, d) == (n + d - 1) \div d

EnrichmentAttrs == {"id", "createdAt", "updatedAt"}
StampAttrs == {"createdAt", "updatedAt"}

IdSupplied(in) == "id" \in DOMAIN in /\ in["id"] # Null /\ in["id"] # Undefined

\* out is in with an id and both timestamps, and nothing else changed
Enriches(out, in) ==
    /\ DOMAIN out = DOMAIN in \cup EnrichmentAttrs
    /\ \A a \in DOMAIN in \ EnrichmentAttrs : out[a] = in[a]
    /\ IdSupplied(in) => out["id"] = in["id"]
    /\ out["createdAt"][1] = "num" /\ out["updatedAt"][1] = "num"

\* out is in with both timestamps, and nothing else changed
Stamps(out, in) ==
    /\ DOMAIN out = DOMAIN in \cup StampAttrs
    /\ \A a \in DOMAIN in \ StampAttrs : out[a] = in[a]

BatchOps == {"batchCreateItems", "addItems"}

ChunkedInOrder(p) ==
    LET cmds == CommandsOf(p)
        flat == Flatten(cmds)
        items == calls[p].params.items
    IN /\ Len(cmds) = CeilDiv(Len(items), BatchSize)
       /\ \A i \in 1..Len(cmds) :
             cmds[i].kind = "BatchWrite" /\ Len(cmds[i].input) \in 1..BatchSize
       /\ Len(flat) = Len(items)
       /\ \A i \in 1..Len(flat) :
             IF calls[p].op = "batchCreateItems" THEN Enriches(flat[i], items[i])
             ELSE Stamps(flat[i], items[i])

ReturnsEnrichedList(p) ==
    /\ calls[p].result[1] = "list"
    /\ Len(calls[p].result[2]) = Len(calls[p].params.items)
    /\ \A i \in 1..Len(calls[p].params.items) : Enriches(calls[p].result[2][i], calls[p].params.items[i])

\* C1: a batchCreateItems or addItems call over N records in which no store call
\* fails issues exactly ceil(N/25) bulk-writes of 1 to 25 records each, whose
\* records in call order are the input in input order, and batchCreateItems returns
\* N records, the i-th the enrichment of the i-th input record.
C1_ChunksCoverInput ==
    \A p \in Procs :
        (calls[p].op \in BatchOps /\ calls[p].pc = "returned") =>
            /\ \A i \in DOMAIN sent : sent[i].proc = p => sent[i].status = "ok"
            /\ ChunkedInOrder(p)
            /\ calls[p].op = "batchCreateItems" => ReturnsEnrichedList(p)

\* a batchCreateItems call over three chunks has returned while an addItems call
\* over two chunks has returned too
C1_Witness ==
    /\ calls["p1"].op = "batchCreateItems" /\ calls["p1"].pc = "returned"
    /\ Len(calls["p1"].params.items) = 2 * BatchSize + 1
    /\ Len(CommandsOf("p1")) = 3
    /\ calls["p2"].op = "addItems" /\ calls["p2"].pc = "returned"
    /\ Len(CommandsOf("p2")) = 2

\* the records of p's first k chunks
FirstChunks(p, k) == SubSeq(calls[p].response, 1, Min(k * BatchSize, Len(calls[p].params.items)))

\* C2: when the bulk-write of chunk k fails, batchCreateItems raises that same
\* error and returns no list; chunks 1..k-1 were written and stay so, chunk k is
\* sent once, and nothing is sent for the chunks after it.
C2_FailureStopsTheBatch ==
    \A p \in Procs :
        LET cmds == CommandsOf(p)
            k == Len(cmds)
        IN (calls[p].op = "batchCreateItems" /\ \E i \in 1..k : cmds[i].status = "failed") =>
            /\ calls[p].pc = "threw"
            /\ cmds[k].status = "failed"
            /\ calls[p].result = cmds[k].reply
            /\ \A i \in 1..(k - 1) : cmds[i].status = "ok" /\ Len(cmds[i].input) = BatchSize
            /\ \A i \in 1..k : cmds[i].kind = "BatchWrite"
            /\ Flatten(cmds) = FirstChunks(p, k)
            /\ \A i \in 1..Len(Flatten(cmds)) : Enriches(Flatten(cmds)[i], calls[p].params.items[i])

\* the second of three chunks failed: one chunk stays written, the third is never sent
C2_Witness ==
    /\ calls["p1"].op = "batchCreateItems" /\ calls["p1"].pc = "threw"
    /\ Len(calls["p1"].params.items) = 2 * BatchSize + 1
    /\ Len(CommandsOf("p1")) = 2
    /\ CommandsOf("p1")[1].status = "ok"
    /\ calls["p2"].pc \in {"returned", "threw"}

\* C8: a batch call has at most one bulk-write outstanding, sends chunk k+1 only
\* after the store answered chunk k with success, whatever other calls are in
\* flight, and a batchCreateItems result holds no record of another call.
C8_ChunksOneAtATime ==
    \A p \in Procs :
        LET cmds == CommandsOf(p)
        IN calls[p].op \in BatchOps =>
            /\ Cardinality(Outstanding(p)) <= 1
            /\ \A i \in 1..(Len(cmds) - 1) : cmds[i].status = "ok"
            /\ \A i \in 1..Len(cmds) :
                  cmds[i].input[1]["n"] = Num((i - 1) * BatchSize + 1)
            /\ \A i \in 1..Len(calls[p].response) : calls[p].response[i]["owner"] = Str(p)
            /\ calls[p].result[1] = "list" =>
                  \A i \in 1..Len(calls[p].result[2]) : calls[p].result[2][i]["owner"] = Str(p)

\* both callers await a bulk-write at once, the first on its second chunk
C8_Witness ==
    /\ calls["p1"].op = "batchCreateItems" /\ calls["p2"].op = "batchCreateItems"
    /\ Outstanding("p1") # {} /\ Outstanding("p2") # {}
    /\ calls["p1"].k = 2 /\ calls["p2"].k = 2
    /\ \E i \in DOMAIN sent : sent[i].proc = "p2" /\ i < Len(sent) /\ sent[i + 1].proc = "p1"

---------------------------------------------------------------------------
(* Enrichment: identifiers and timestamps *)

CreateOps == {"createItem", "batchCreateItems"}

InputsOf(p) == IF calls[p].op \in BatchOps THEN calls[p].params.items ELSE <<calls[p].params.data>>

\* <<p, i>>: the i-th record a create call of p has returned
Created ==
    {x \in Procs \X (1..(MaxItems + MaxList + 2)) :
        /\ calls[x[1]].op \in CreateOps
        /\ calls[x[1]].pc = "returned"
        /\ x[2] <= Len(InputsOf(x[1]))}

In(x) == InputsOf(x[1])[x[2]]
Out(x) ==
    IF calls[x[1]].op = "createItem" THEN calls[x[1]].result[2] ELSE calls[x[1]].result[2][x[2]]

\* <<p, i>>: the i-th record a create call of p has enriched, returned or not
Enriched == {x \in Procs \X (1..(MaxItems + MaxList + 2)) :
                calls[x[1]].op \in CreateOps /\ x[2] <= Len(calls[x[1]].response)}

\* the id of x is one uuid() made, unlike any other it made in this run
FreshId(x) ==
    /\ Out(x)["id"][1] = "uuid"
    /\ \A y \in Enriched \ {x} :
          ~IdSupplied(In(y)) => calls[y[1]].response[y[2]]["id"] # Out(x)["id"]

Empty(v) == v \in {Null, Undefined, Str("")}

\* C5 as stated: every item createItem or batchCreateItems returns has a non-empty
\* id, the caller's when the input held one that is neither null nor undefined,
\* and otherwise a generated one unlike every other generated in the run.
C5_Original ==
    \A x \in Created :
        /\ "id" \in DOMAIN Out(x)
        /\ ~Empty(Out(x)["id"])
        /\ IdSupplied(In(x)) => Out(x)["id"] = In(x)["id"]
        /\ ~IdSupplied(In(x)) => FreshId(x)

\* C5, amended: every item createItem or batchCreateItems returns has an id that
\* is neither null nor undefined, and is empty only when the caller supplied the
\* empty string as id; the id is the caller's when the input held one that is
\* neither null nor undefined, and otherwise a generated one unlike every other
\* generated in the run.
C5_IdKeptOrGenerated ==
    \A x \in Created :
        /\ "id" \in DOMAIN Out(x)
        /\ Out(x)["id"] \notin {Null, Undefined}
        /\ Empty(Out(x)["id"]) => In(x)["id"] = Str("")
        /\ IdSupplied(In(x)) => Out(x)["id"] = In(x)["id"]
        /\ ~IdSupplied(In(x)) => FreshId(x)

\* a returned list holds a kept id beside a generated one, and the other caller's
\* record got a generated id too
C5_Witness ==
    /\ calls["p1"].op = "batchCreateItems" /\ calls["p1"].pc = "returned"
    /\ calls["p2"].pc = "returned"
    /\ \E i, j \in 1..Len(calls["p1"].params.items) :
          /\ "id" \in DOMAIN calls["p1"].params.items[i] /\ calls["p1"].params.items[i]["id"] = Str("a")
          /\ calls["p1"].result[2][i]["id"] = Str("a")
          /\ "id" \in DOMAIN calls["p1"].params.items[j] /\ calls["p1"].params.items[j]["id"] = Null
          /\ calls["p1"].result[2][j]["id"][1] = "uuid"

\* C6 as stated: every item createItem or batchCreateItems produces has createdAt
\* equal to updatedAt, however the clock behaves, and both replace what the caller
\* supplied.
C6_SameInstant ==
    \A x \in Enriched :
        LET item == calls[x[1]].response[x[2]]
        IN /\ item["createdAt"][1] = "num"
           /\ item["updatedAt"][1] = "num"
           /\ item["createdAt"] = item["updatedAt"]

AppendOps == {"addItem", "addItems"}

\* the records the commands of p carry, in the order sent
Written(p) == Flatten(CommandsOf(p))

IsoStamp(v) == v[1] = "iso" /\ v[2] \in 0..now

\* C10 as stated: every item addItems writes, and addItem without the skip flag,
\* carries createdAt and updatedAt stamped by the layer whatever the caller's
\* record held, and is otherwise the caller's record with no id added; addItem
\* with the flag set writes the record as supplied; neither returns a value.
C10_AppendStamps ==
    \A p \in Procs :
        calls[p].op \in AppendOps =>
            /\ calls[p].pc = "returned" => calls[p].result = Void
            /\ \A i \in 1..Len(Written(p)) :
                  IF calls[p].op = "addItem" /\ Field(calls[p].params, "excludeCreatedAt") = Bool(TRUE)
                  THEN Written(p)[i] = InputsOf(p)[i]
                  ELSE /\ Stamps(Written(p)[i], InputsOf(p)[i])
                       /\ IsoStamp(Written(p)[i]["createdAt"])
                       /\ IsoStamp(Written(p)[i]["updatedAt"])

---------------------------------------------------------------------------
(* The read operations *)

NotFoundError == <<"error", NOT_FOUND>>

\* C3: getItem issues exactly one fetch; it raises NotFound when the store fails
\* with its not-found signal or answers without an item, raises any other store
\* error unchanged, and otherwise returns the item as the store returned it.
C3_GetOutcomes ==
    \A p \in Procs :
        LET cmds == CommandsOf(p)
        IN calls[p].op = "getItem" =>
            /\ Len(cmds) = (IF calls[p].pc = "start" THEN 0 ELSE 1)
            /\ \A i \in 1..Len(cmds) :
                  /\ cmds[i].kind = "Get"
                  /\ cmds[i].table = calls[p].params.table
                  /\ cmds[i].input = [Key |-> calls[p].params.key]
                  /\ (cmds[i].status = "pending") = (calls[p].pc = "await")
                  /\ cmds[i].status = "failed" =>
                        /\ calls[p].pc = "threw"
                        /\ calls[p].result =
                              (IF cmds[i].reply[2].message = NotFoundSignal THEN NotFoundError
                               ELSE cmds[i].reply)
                  /\ cmds[i].status = "ok" =>
                        IF "Item" \in DOMAIN cmds[i].reply[2]
                        THEN /\ calls[p].pc = "returned"
                             /\ calls[p].result = <<"item", cmds[i].reply[2]["Item"]>>
                        ELSE /\ calls[p].pc = "threw"
                             /\ calls[p].result = NotFoundError

\* one fetch failed with another error than not-found and that error was raised,
\* while the other fetch was answered without an item and raised NotFound
C3_Witness ==
    /\ calls["p1"].op = "getItem" /\ calls["p2"].op = "getItem"
    /\ Len(CommandsOf("p1")) = 1 /\ CommandsOf("p1")[1].status = "failed"
    /\ calls["p1"].result = <<"error", [message |-> "ThrottlingException"]>>
    /\ Len(CommandsOf("p2")) = 1 /\ CommandsOf("p2")[1].status = "ok"
    /\ calls["p2"].result = NotFoundError

\* the items a query response carries
Matching(output) == IF "Items" \in DOMAIN output THEN output["Items"] ELSE <<>>

\* C4 as stated: on a successful query response with no matching item
\* listItemsByIndex raises NotFound, and otherwise it returns the K > 0 items of the
\* response in the store's order; it never returns an empty list.
C4_NoEmptyList ==
    \A p \in Procs :
        LET cmds == CommandsOf(p)
        IN (calls[p].op = "listItemsByIndex" /\ Len(cmds) = 1 /\ cmds[1].status = "ok") =>
            /\ IF Len(Matching(cmds[1].reply[2])) = 0
               THEN calls[p].pc = "threw" /\ calls[p].result = NotFoundError
               ELSE calls[p].pc = "returned"
                    /\ calls[p].result = <<"list", Matching(cmds[1].reply[2])>>
            /\ calls[p].result # <<"list", <<>> >>

\* the items the store reported as found in the table
Reported(output, table) ==
    IF "Responses" \in DOMAIN output /\ table \in DOMAIN output["Responses"]
    THEN output["Responses"][table] ELSE <<>>

\* C9: for an id list of any length batchGetItems issues exactly one bulk fetch
\* with one key {id: x} per id in input order, returns exactly the items the store
\* reports as found for the table (the empty list when it reports none), never
\* raises NotFound, and passes a store failure through unchanged.
C9_OneBulkFetch ==
    \A p \in Procs :
        LET cmds == CommandsOf(p)
            ids == calls[p].params.ids
        IN calls[p].op = "batchGetItems" =>
            /\ Len(cmds) = (IF calls[p].pc = "start" THEN 0 ELSE 1)
            /\ \A i \in 1..Len(cmds) :
                  /\ cmds[i].kind = "BatchGet"
                  /\ cmds[i].table = calls[p].params.table
                  /\ DOMAIN cmds[i].input = {"Keys"}
                  /\ Len(cmds[i].input.Keys) = Len(ids)
                  /\ \A j \in 1..Len(ids) : cmds[i].input.Keys[j] = [id |-> ids[j]]
                  /\ (cmds[i].status = "pending") = (calls[p].pc = "await")
                  /\ cmds[i].status = "ok" =>
                        /\ calls[p].pc = "returned"
                        /\ calls[p].result =
                              <<"list", Reported(cmds[i].reply[2], calls[p].params.table)>>
                  /\ cmds[i].status = "failed" =>
                        /\ calls[p].pc = "threw"
                        /\ calls[p].result = cmds[i].reply
            /\ calls[p].pc = "threw" => \E i \in 1..Len(cmds) : cmds[i].status = "failed"

\* a fetch of 26 ids returned the 13 items the store found, another returned the
\* empty list
C9_Witness ==
    /\ calls["p1"].op = "batchGetItems" /\ calls["p1"].pc = "returned"
    /\ Len(calls["p1"].params.ids) = BatchSize + 1
    /\ Len(CommandsOf("p1")) = 1 /\ Len(CommandsOf("p1")[1].input.Keys) = BatchSize + 1
    /\ Len(calls["p1"].result[2]) = 13
    /\ calls["p2"].op = "batchGetItems" /\ calls["p2"].pc = "returned"
    /\ Len(calls["p2"].result[2]) = 0

---------------------------------------------------------------------------
(* updateItem *)

\* the attributes the directive assigns
Assigned(input) == {input.ExpressionAttributeNames[c.name] : c \in input.UpdateExpression}

\* the attribute map the caller supplied
Supplied(p) == calls[p].given.data

DirectiveAssigns(i) ==
    LET input == sent[i].input
        p == sent[i].proc
        n == Cardinality(Assigned(input))
    IN /\ sent[i].table = calls[p].params.table
       /\ input.Key = calls[p].params.key
       /\ Assigned(input) = DOMAIN Supplied(p) \cup {"updatedAt"}
       /\ Cardinality(input.UpdateExpression) = n
       /\ Cardinality(DOMAIN input.ExpressionAttributeNames) = n
       /\ Cardinality(DOMAIN input.ExpressionAttributeValues) = n
       /\ \A c \in input.UpdateExpression :
             /\ c.name \in DOMAIN input.ExpressionAttributeNames
             /\ c.value \in DOMAIN input.ExpressionAttributeValues
             /\ LET a == input.ExpressionAttributeNames[c.name]
                    v == input.ExpressionAttributeValues[c.value]
                IN IF a = "updatedAt" THEN v[1] = "num" /\ v[2] \in 0..now
                   ELSE v = Supplied(p)[a]
       /\ sent[i].status = "ok" =>
             /\ calls[p].pc = "returned"
             /\ calls[p].result = <<"item", sent[i].reply[2]["Attributes"]>>

UpdateTouchesOnlySupplied(u) ==
    LET touched == DOMAIN Supplied(u.proc) \cup {"updatedAt"}
    IN /\ DOMAIN u.after = DOMAIN u.before \cup touched
       /\ \A a \in DOMAIN u.before \ touched : u.after[a] = u.before[a]
       /\ \A a \in touched \ {"updatedAt"} : u.after[a] = Supplied(u.proc)[a]
       /\ u.after["updatedAt"][1] = "num"
       /\ calls[u.proc].result = <<"item", u.after>>

\* C7: the directive updateItem sends assigns exactly the supplied attributes and
\* updatedAt, each through one name alias and one value alias that resolve to the
\* attribute and to its value (the supplied value, or for updatedAt the current
\* time even when one was supplied); the call returns the whole item the store
\* reports, in which every other attribute is unchanged.
C7_UpdateDirective ==
    /\ \A i \in DOMAIN sent : sent[i].kind = "Update" => DirectiveAssigns(i)
    /\ \A j \in DOMAIN updates : UpdateTouchesOnlySupplied(updates[j])

\* an update that supplied name and a stale updatedAt was applied to an item
\* holding other attributes, after the other caller's update
C7_Witness ==
    /\ Len(updates) = 2
    /\ updates[2].proc = "p1"
    /\ "age" \in DOMAIN updates[2].before
    /\ calls["p1"].pc = "returned"
    /\ Supplied("p1") = [name |-> Str("p1"), updatedAt |-> Str("p1")]
    /\ \E i \in DOMAIN sent :
          /\ sent[i].proc = "p1"
          /\ Assigned(sent[i].input) = {"name", "updatedAt"}
          /\ sent[i].input.ExpressionAttributeValues[Colon("updatedAt")][2] = MaxClock
    /\ updates[2].after["name"] = Str("p1")
    /\ updates[2].after["updatedAt"] = Num(MaxClock)
    /\ updates[2].before["updatedAt"] # Num(MaxClock)

====
